---- MODULE Spec2Model ----
(***************************************************************************)
(* Zeus pet-care reminders: the two alert runners (the multi-pet GitHub    *)
(* Actions script and scripts/send-alerts.js), the schedule calculator     *)
(* they share, and the relational store they both write.                   *)
(*                                                                         *)
(* A JavaScript Date is an instant, counted here in whole hours since      *)
(* 2024-01-01T00:00Z (a Monday).  A calendar key "YYYY-MM-DD" is the       *)
(* number of that calendar day, day 0 being 2024-01-01.                    *)
(***************************************************************************)
EXTENDS Integers, Sequences, FiniteSets, Bags, TLC

(***************************************************************************)
(* Bounds of the model.                                                    *)
(***************************************************************************)
MaxRuns == 2
MaxTicks == 1
MaxSpan == 40
MaxDays == 5
MaxApplications == 4
MaxTreatments == 4

(***************************************************************************)
(* Time zones.  TZ is America/Sao_Paulo (UTC-3, no daylight saving since   *)
(* 2019); the multi-pet script runs on a GitHub Actions host, whose local  *)
(* zone is UTC.                                                            *)
(***************************************************************************)
TZ == -3
HostTZ == 0

(***************************************************************************)
(* The proleptic Gregorian calendar, as the JavaScript Date and date-fns   *)
(* use it.                                                                 *)
(***************************************************************************)
IsLeap(y) == (y % 4 = 0 /\ y % 100 # 0) \/ y % 400 = 0

DaysInYear(y) == IF IsLeap(y) THEN 366 ELSE 365

DaysInMonth(y, m) ==
    IF m \in {1, 3, 5, 7, 8, 10, 12} THEN 31
    ELSE IF m \in {4, 6, 9, 11} THEN 30
    ELSE IF IsLeap(y) THEN 29 ELSE 28

RECURSIVE DaysBeforeYear(_)
DaysBeforeYear(y) == IF y <= 2024 THEN 0 ELSE DaysBeforeYear(y - 1) + DaysInYear(y - 1)

RECURSIVE DaysBeforeMonth(_, _)
DaysBeforeMonth(y, m) == IF m <= 1 THEN 0 ELSE DaysBeforeMonth(y, m - 1) + DaysInMonth(y, m - 1)

\* new Date(y, m - 1, d) as a calendar day number; m may overflow past 12.
RECURSIVE YMD(_, _, _)
YMD(y, m, d) ==
    IF m > 12 THEN YMD(y + 1, m - 12, d)
    ELSE DaysBeforeYear(y) + DaysBeforeMonth(y, m) + (d - 1)

RECURSIVE YearOfDay(_, _)
YearOfDay(n, y) == IF n < DaysInYear(y) THEN y ELSE YearOfDay(n - DaysInYear(y), y + 1)

RECURSIVE MonthOfDay(_, _, _)
MonthOfDay(n, y, m) ==
    IF n < DaysInMonth(y, m) THEN m ELSE MonthOfDay(n - DaysInMonth(y, m), y, m + 1)

getFullYear(day) == YearOfDay(day, 2024)
getMonth(day) == MonthOfDay(day - DaysBeforeYear(getFullYear(day)), getFullYear(day), 1)
getDate(day) == day - YMD(getFullYear(day), getMonth(day), 1) + 1

\* The calendar day and hour a Date shows in the host's local zone.
LocalDay(date) == (date + HostTZ) \div 24
LocalHour(date) == (date + HostTZ) % 24
FromLocal(day, hour) == day * 24 + hour - HostTZ

\* Date.prototype.getDay: 0 = Sunday .. 6 = Saturday; day 0 is a Monday.
getDay(date) == (LocalDay(date) + 1) % 7

\* date-fns addDays: the same local time, n calendar days later.
addDays(date, n) == FromLocal(LocalDay(date) + n, LocalHour(date))

\* date-fns addMonths: the same day of the month n months later, clamped to
\* the last day of that month.
addMonths(date, n) ==
    LET day == LocalDay(date)
        y == getFullYear(day)
        m == getMonth(day) + n
        dom == getDate(day)
        endOfDesiredMonth == YMD(y, m + 1, 1) - 1
        daysInMonth == endOfDesiredMonth - YMD(y, m, 1) + 1
    IN  IF n = 0 THEN date
        ELSE IF dom >= daysInMonth THEN FromLocal(endOfDesiredMonth, LocalHour(date))
        ELSE FromLocal(YMD(y, m, dom), LocalHour(date))

\* date-fns differenceInCalendarDays: difference of the local calendar days.
differenceInCalendarDays(left, right) == LocalDay(left) - LocalDay(right)

\* date-fns-tz toZonedTime / utcToZonedTime: a Date whose LOCAL fields show
\* the wall clock of zone tz at the instant given.
toZonedTime(date, tz) == date + tz - HostTZ

\* date-fns-tz formatInTimeZone(date, tz, "yyyy-MM-dd"): the calendar day of
\* the instant in zone tz.
formatInTimeZone(date, tz) == (date + tz) \div 24

\* date-fns formatISO(date, {representation: "date"}): the local calendar day.
formatISO(date) == LocalDay(date)

\* new Date(`${key}T00:00:00`): local midnight of the calendar day.
ParseLocalMidnight(key) == FromLocal(key, 0)

(***************************************************************************)
(* Schedule calculator.                                                    *)
(***************************************************************************)
addInterval(date, value, unit) ==
    IF unit = "months" THEN addMonths(date, value) ELSE addDays(date, value)

\* The weekend rule with Saturday moved by one day only.
adjustWeekend_SaturdayPlusOne(date) ==
    LET dow == getDay(date)
    IN  IF dow = 6 THEN addDays(date, 1)
        ELSE IF dow = 0 THEN addDays(date, 1)
        ELSE date

adjustWeekend(date) ==
    LET dow == getDay(date)
    IN  IF dow = 6 THEN addDays(date, 2)
        ELSE IF dow = 0 THEN addDays(date, 1)
        ELSE date

\* The next date without the weekend rule.
calcNextDate_Raw(lastApplied, value, unit) == addInterval(lastApplied, value, unit)

calcNextDate(lastApplied, value, unit) == adjustWeekend(addInterval(lastApplied, value, unit))

\* differenceInDays, taken for differenceInCalendarDays: the full periods
\* of 24 hours between the two instants.
daysToNext_FullDays(nextDate, today) ==
    IF nextDate >= today THEN (nextDate - today) \div 24 ELSE -((today - nextDate) \div 24)

daysToNext(nextDate, today) == differenceInCalendarDays(nextDate, today)

\* The status with 60 days left out of "upcoming".
statusFromDays_Below60(days) ==
    IF days < 0 THEN "overdue" ELSE IF days < 60 THEN "upcoming" ELSE "later"

statusFromDays(days) ==
    IF days < 0 THEN "overdue" ELSE IF days <= 60 THEN "upcoming" ELSE "later"

isoDateSP(date) == formatInTimeZone(date, TZ)

toISODate(d) == formatISO(d)

\* The multi-pet script's own copy of the weekend rule.
adjustIfWeekend(date) ==
    LET d == date
        dow == getDay(d)
    IN  IF dow = 6 THEN addDays(d, 2)
        ELSE IF dow = 0 THEN addDays(d, 1)
        ELSE d

Multi_calcNextDate(lastApplied, intervalValue, intervalUnit) ==
    LET base == addInterval(lastApplied, intervalValue, intervalUnit)
    IN  adjustIfWeekend(base)

(***************************************************************************)
(* The store.  A table is a set of rows; alert_log is a bag of rows, the   *)
(* surrogate id of a row being what tells two equal triples apart.         *)
(***************************************************************************)
VARIABLES
    env,            \* process.env of the runner: the four required values
    calc,           \* the schedule calculator: the arguments and result of a call
    config,         \* the configuration page (ConfigPage) of the signed-in user
    agenda,         \* the agenda page (AgendaPage) of the signed-in user
    clock,          \* the current instant
    ticks,          \* how often the clock has advanced
    pet_members,    \* table pet_members(pet_id, user_id, role)
    treatments,     \* table treatments(id, pet_id, category, name, interval_*, alerts_days)
    applications,   \* table applications(treatment_id, applied_on)
    alert_log,      \* table alert_log(treatment_id, alert_type, alert_date)
    run,            \* the invocations of the two runner scripts
    sent,           \* history: the notifications the messaging channel delivered
    undelivered,    \* history: the notifications the messaging channel refused
    attempts        \* history: the claim attempts made against alert_log

vars == <<env, calc, config, agenda, clock, ticks, pet_members, treatments, applications,
          alert_log, run, sent, undelivered, attempts>>

pages == <<config, agenda>>

history == <<sent, undelivered, attempts>>

store == <<pet_members, treatments, applications>>

Runs == 1..MaxRuns

Pets == {[id |-> 1, name |-> "Zeus"], [id |-> 2, name |-> "Luna"]}

\* alerts_days is an int[] column that may be NULL.
NullAlerts == [isArray |-> FALSE, items |-> <<>>]
Alerts(items) == [isArray |-> TRUE, items |-> items]

DefaultAlerts == <<30, 15, 5>>

\* The test as it would be on the magnitude of x.
includes_Magnitude(arr, x) == \E i \in 1..Len(arr) : arr[i] = x \/ arr[i] = 0 - x

\* Array.prototype.includes
includes(arr, x) == \E i \in 1..Len(arr) : arr[i] = x

\* Collation of the text columns the treatments are ordered by.
TextRank(s) ==
    CASE s = "flea_tick" -> 1
      [] s = "medicine" -> 2
      [] s = "other" -> 3
      [] s = "vaccine" -> 4
      [] s = "vermifuge" -> 5
      [] s = "Apoquel" -> 1
      [] s = "Bravecto" -> 2
      [] s = "Drontal" -> 3
      [] s = "V10" -> 4
      [] OTHER -> 0

\* The sequences that list every element of S once.
Perms(S) ==
    {f \in [1..Cardinality(S) -> S] : \A i, j \in 1..Cardinality(S) : f[i] = f[j] => i = j}

\* Rows in the order ORDER BY category, name may return them.
OrderedByCategoryName(S) ==
    {f \in Perms(S) : \A i, j \in 1..Cardinality(S) :
        i < j => \/ TextRank(f[i].category) < TextRank(f[j].category)
                 \/ /\ f[i].category = f[j].category
                    /\ TextRank(f[i].name) <= TextRank(f[j].name)}

\* The query as it would be if a treatment without applications were given
\* a baseline of 2024-01-01 instead of no row.
LastApplication_WithBaseline(treatmentId) ==
    LET rows == {a \in applications : a.treatment_id = treatmentId}
    IN  IF rows = {} THEN <<[treatment_id |-> treatmentId, applied_on |-> YMD(2024, 1, 1)]>>
        ELSE <<CHOOSE a \in rows : \A b \in rows : b.applied_on <= a.applied_on>>

\* The query as it would be with the order ascending: the earliest row.
LastApplication_Earliest(treatmentId) ==
    LET rows == {a \in applications : a.treatment_id = treatmentId}
    IN  IF rows = {} THEN <<>>
        ELSE <<CHOOSE a \in rows : \A b \in rows : a.applied_on <= b.applied_on>>

\* select applied_on ... order by applied_on desc limit 1
LastApplication(treatmentId) ==
    LET rows == {a \in applications : a.treatment_id = treatmentId}
    IN  IF rows = {} THEN <<>>
        ELSE <<CHOOSE a \in rows : \A b \in rows : b.applied_on <= a.applied_on>>

\* The alert_type strings.
UpcomingType(days) == <<"upcoming_", days>>
DueInType(days) == <<"due_in_", days>>
OverdueType == <<"overdue_daily">>

LogRow(treatmentId, alertType, alertDate) ==
    [treatment_id |-> treatmentId, alert_type |-> alertType, alert_date |-> alertDate]

\* The insert as it would be without the uniqueness constraint.
InsertAlertLog_Unconstrained(log, row) ==
    [code |-> "", log |-> log (+) SetToBag({row})]

\* The insert as it would be with the constraint UNIQUE(alert_type,
\* alert_date), the treatment left out of the key.
InsertAlertLog_PerTypeAndDate(log, row) ==
    IF \E other \in BagToSet(log) :
            other.alert_type = row.alert_type /\ other.alert_date = row.alert_date
    THEN [code |-> "23505", log |-> log]
    ELSE [code |-> "", log |-> log (+) SetToBag({row})]

\* insert into alert_log under UNIQUE(treatment_id, alert_type, alert_date):
\* the error code and the table afterwards.
InsertAlertLog(log, row) ==
    IF BagIn(row, log)
    THEN [code |-> "23505", log |-> log]
    ELSE [code |-> "", log |-> log (+) SetToBag({row})]

(***************************************************************************)
(* An invocation of a runner script.  pets and treatments hold what is     *)
(* left of the two for-loops, the item being processed first.  error is    *)
(* what main() threw; okBefore tells whether, when the invocation started, *)
(* an earlier one of the same Sao Paulo calendar day had exited with 0.    *)
(***************************************************************************)
IdleRun ==
    [kind |-> "none", pc |-> "idle", nowSP |-> 0, todayKey |-> 0,
     pets |-> <<>>, treatments |-> <<>>, days |-> 0, alertType |-> <<>>,
     sentCount |-> 0, exitCode |-> -1, error |-> "", okBefore |-> FALSE]

\* main() returned: the process exits with code 0.
Done(rr) ==
    [rr EXCEPT !.pc = "done", !.exitCode = 0, !.pets = <<>>, !.treatments = <<>>,
               !.days = 0, !.alertType = <<>>]

\* The catch handler as it would be without process.exit(1): the error is
\* printed and the process ends with code 0.
Fatal_Logged(rr, err) ==
    [rr EXCEPT !.pc = "done", !.exitCode = 0, !.error = err, !.pets = <<>>,
               !.treatments = <<>>, !.days = 0, !.alertType = <<>>]

\* main() threw err: the catch handler prints it and exits with code 1.
Fatal(rr, err) ==
    [rr EXCEPT !.pc = "failed", !.exitCode = 1, !.error = err, !.pets = <<>>,
               !.treatments = <<>>, !.days = 0, !.alertType = <<>>]

\* What a store query may answer besides its rows: no error, or an error
\* that is not a uniqueness conflict (08006, connection failure).
QueryErrors == {"", "08006"}

\* The calendar day in Sao Paulo on which invocation rr started.
RunDay(rr) == LocalDay(rr.nowSP)

Triple(r, rr) ==
    [run |-> r, treatment_id |-> Head(rr.treatments).id, alert_type |-> rr.alertType,
     alert_date |-> rr.todayKey]

Attempt(r, rr, outcome) ==
    [run |-> r, treatment_id |-> Head(rr.treatments).id, alert_type |-> rr.alertType,
     alert_date |-> rr.todayKey, days |-> rr.days, today |-> RunDay(rr), outcome |-> outcome]

Delivery(r, rr) ==
    [run |-> r, treatment_id |-> Head(rr.treatments).id, alert_type |-> rr.alertType,
     alert_date |-> rr.todayKey, date |-> RunDay(rr)]

(***************************************************************************)
(* The configuration of the runner process.  A value of process.env is a   *)
(* string or undefined; "undefined" stands for a variable that is not set. *)
(***************************************************************************)
EnvNames == {"SUPABASE_URL", "SUPABASE_SERVICE_ROLE_KEY", "TELEGRAM_BOT_TOKEN", "TELEGRAM_CHAT_ID"}

\* !v for a value of process.env
Falsy(v) == v \in {"undefined", ""}

\* The ENV block of the multi-pet script as it would be without its second
\* test.
Multi_EnvOk_StoreOnly ==
    ~(Falsy(env["SUPABASE_URL"]) \/ Falsy(env["SUPABASE_SERVICE_ROLE_KEY"]))

\* The ENV block of the multi-pet script: neither of its two tests throws.
Multi_EnvOk ==
    /\ ~(Falsy(env["SUPABASE_URL"]) \/ Falsy(env["SUPABASE_SERVICE_ROLE_KEY"]))
    /\ ~(Falsy(env["TELEGRAM_BOT_TOKEN"]) \/ Falsy(env["TELEGRAM_CHAT_ID"]))

\* mustEnv(name) returns instead of throwing.
mustEnv(name) == ~Falsy(env[name])

\* The four mustEnv calls at the top of scripts/send-alerts.js.
SA_EnvOk ==
    /\ mustEnv("SUPABASE_URL")
    /\ mustEnv("SUPABASE_SERVICE_ROLE_KEY")
    /\ mustEnv("TELEGRAM_BOT_TOKEN")
    /\ mustEnv("TELEGRAM_CHAT_ID")

\* An invocation starts: the script loads, tests its configuration, and
\* main() reads the clock once.  A script that throws while loading dies with
\* an uncaught exception, exit code 1, before main() is called.  A
\* deployment schedules one of the two scripts, so all invocations run the
\* same script.
Begin(r, kind, pc, todayKey, envOk) ==
    /\ run[r].pc = "idle"
    /\ r > 1 => run[r - 1].pc # "idle"
    /\ \A q \in Runs : run[q].kind \in {"none", kind}
    /\ LET nowSP == toZonedTime(clock, TZ)
       IN  run' = [run EXCEPT ![r] =
                IF ~envOk
                THEN [IdleRun EXCEPT !.kind = kind, !.pc = "failed", !.exitCode = 1,
                                     !.error = "Missing env"]
                ELSE [IdleRun EXCEPT !.kind = kind, !.pc = pc, !.nowSP = nowSP,
                                     !.todayKey = todayKey,
                                     !.okBefore = \E q \in Runs : /\ run[q].pc = "done"
                                                                  /\ RunDay(run[q]) = LocalDay(nowSP)]]
    /\ UNCHANGED <<env, calc, pages, clock, ticks, store, alert_log, history>>

(***************************************************************************)
(* The multi-pet runner (Zeus Alerts - GitHub Actions cron).               *)
(***************************************************************************)
\* The end of the inner loop body: the next treatment, else the next pet,
\* else the summary line and the return.
Multi_NextTreatment(rr) ==
    LET clean == [rr EXCEPT !.days = 0, !.alertType = <<>>]
    IN  IF Len(rr.treatments) > 1
        THEN [clean EXCEPT !.treatments = Tail(rr.treatments), !.pc = "getLastApplicationDate"]
        ELSE IF Len(rr.pets) > 1
        THEN [clean EXCEPT !.treatments = <<>>, !.pets = Tail(rr.pets), !.pc = "getTreatmentsByPet"]
        ELSE Done(clean)

\* After the upcoming block: the overdue block, when days < 0.
Multi_AfterUpcoming(rr) ==
    IF rr.days < 0
    THEN [rr EXCEPT !.alertType = OverdueType, !.pc = "alreadyLogged"]
    ELSE Multi_NextTreatment(rr)

\* After either block.
Multi_AfterBlock(rr) ==
    IF rr.alertType = OverdueType THEN Multi_NextTreatment(rr) ELSE Multi_AfterUpcoming(rr)

Multi_ResolveAlerts(alerts_days) ==
    IF alerts_days.isArray /\ Len(alerts_days.items) > 0 THEN alerts_days.items ELSE DefaultAlerts

Multi_todayKey(nowSP) == isoDateSP(nowSP)

Multi_Start(r) ==
    Begin(r, "multi", "getOwnerPets", Multi_todayKey(toZonedTime(clock, TZ)), Multi_EnvOk)

\* getOwnerPets as it would be without .eq("role", "owner"): the pets of
\* every membership.
getOwnerPets_AnyRole(r) ==
    /\ run[r].kind = "multi" /\ run[r].pc = "getOwnerPets"
    /\ \E mErr \in QueryErrors, pErr \in QueryErrors :
        LET petIds == {m.pet_id : m \in pet_members}
            rows == {p \in Pets : p.id \in petIds}
        IN  IF mErr # "" THEN run' = [run EXCEPT ![r] = Fatal(@, mErr)]
            ELSE IF petIds = {} THEN run' = [run EXCEPT ![r] = Done(@)]
            ELSE IF pErr # "" THEN run' = [run EXCEPT ![r] = Fatal(@, pErr)]
            ELSE IF rows = {} THEN run' = [run EXCEPT ![r] = Done(@)]
            ELSE \E pets \in Perms(rows) :
                    run' = [run EXCEPT ![r].pets = pets, ![r].pc = "getTreatmentsByPet"]
    /\ UNCHANGED <<env, calc, pages, clock, ticks, store, alert_log, history>>

getOwnerPets(r) ==
    /\ run[r].kind = "multi" /\ run[r].pc = "getOwnerPets"
    /\ \E mErr \in QueryErrors, pErr \in QueryErrors :
        LET members == {m \in pet_members : m.role = "owner"}
            petIds == {m.pet_id : m \in members}
            rows == {p \in Pets : p.id \in petIds}
        IN  IF mErr # "" THEN run' = [run EXCEPT ![r] = Fatal(@, mErr)]
            ELSE IF petIds = {} THEN run' = [run EXCEPT ![r] = Done(@)]
            ELSE IF pErr # "" THEN run' = [run EXCEPT ![r] = Fatal(@, pErr)]
            ELSE IF rows = {} THEN run' = [run EXCEPT ![r] = Done(@)]
            ELSE \E pets \in Perms(rows) :
                    run' = [run EXCEPT ![r].pets = pets, ![r].pc = "getTreatmentsByPet"]
    /\ UNCHANGED <<env, calc, pages, clock, ticks, store, alert_log, history>>

getTreatmentsByPet(r) ==
    /\ run[r].kind = "multi" /\ run[r].pc = "getTreatmentsByPet"
    /\ \E error \in QueryErrors :
        LET rows == {t \in treatments : t.pet_id = Head(run[r].pets).id}
        IN  IF error # "" THEN run' = [run EXCEPT ![r] = Fatal(@, error)]
            ELSE IF rows = {}
            THEN run' = [run EXCEPT ![r] =
                    IF Len(@.pets) > 1
                    THEN [@ EXCEPT !.pets = Tail(@.pets)]
                    ELSE Done(@)]
            ELSE \E data \in OrderedByCategoryName(rows) :
                    run' = [run EXCEPT ![r].treatments = data, ![r].pc = "getLastApplicationDate"]
    /\ UNCHANGED <<env, calc, pages, clock, ticks, store, alert_log, history>>

getLastApplicationDate(r) ==
    /\ run[r].kind = "multi" /\ run[r].pc = "getLastApplicationDate"
    /\ \E error \in QueryErrors :
        LET rr == run[r]
            t == Head(rr.treatments)
            data == LastApplication(t.id)
        IN  IF error # "" THEN run' = [run EXCEPT ![r] = Fatal(@, error)]
            ELSE IF data = <<>> THEN run' = [run EXCEPT ![r] = Multi_NextTreatment(@)]
            ELSE LET lastApplied == ParseLocalMidnight(data[1].applied_on)
                     nextDate == Multi_calcNextDate(lastApplied, t.interval_value, t.interval_unit)
                     days == daysToNext(nextDate, rr.nowSP)
                     alertsDays == Multi_ResolveAlerts(t.alerts_days)
                     withDays == [rr EXCEPT !.days = days]
                 IN  run' = [run EXCEPT ![r] =
                        IF includes(alertsDays, days)
                        THEN [withDays EXCEPT !.alertType = UpcomingType(days), !.pc = "alreadyLogged"]
                        ELSE Multi_AfterUpcoming(withDays)]
    /\ UNCHANGED <<env, calc, pages, clock, ticks, store, alert_log, history>>

\* select id from alert_log where the triple matches, limit 1
alreadyLogged(r) ==
    /\ run[r].kind = "multi" /\ run[r].pc = "alreadyLogged"
    /\ \E error \in QueryErrors :
        LET rr == run[r]
            row == LogRow(Head(rr.treatments).id, rr.alertType, rr.todayKey)
            already == BagIn(row, alert_log)
        IN  IF error # ""
            THEN /\ run' = [run EXCEPT ![r] = Fatal(@, error)]
                 /\ attempts' = attempts \cup {Attempt(r, rr, "error")}
            ELSE IF already
            THEN /\ run' = [run EXCEPT ![r] = Multi_AfterBlock(@)]
                 /\ attempts' = attempts \cup {Attempt(r, rr, "already")}
            ELSE /\ run' = [run EXCEPT ![r].pc = "telegramSend"]
                 /\ attempts' = attempts \cup {Attempt(r, rr, "acquired")}
    /\ UNCHANGED <<env, calc, pages, clock, ticks, store, alert_log, sent, undelivered>>

\* telegramSend as it would be without the test of res.ok: a refused
\* notification does not throw, and main() goes on to insertLog.
Multi_telegramSend_Unchecked(r) ==
    /\ run[r].kind = "multi" /\ run[r].pc = "telegramSend"
    /\ \E ok \in BOOLEAN :
        /\ sent' = IF ok THEN sent (+) SetToBag({Delivery(r, run[r])}) ELSE sent
        /\ undelivered' = IF ok THEN undelivered ELSE undelivered \cup {Triple(r, run[r])}
        /\ run' = [run EXCEPT ![r].pc = "insertLog"]
    /\ UNCHANGED <<env, calc, pages, clock, ticks, store, alert_log, attempts>>

\* POST sendMessage: res.ok or not.
Multi_telegramSend(r) ==
    /\ run[r].kind = "multi" /\ run[r].pc = "telegramSend"
    /\ \E ok \in BOOLEAN :
        IF ok
        THEN /\ sent' = sent (+) SetToBag({Delivery(r, run[r])})
             /\ undelivered' = undelivered
             /\ run' = [run EXCEPT ![r].pc = "insertLog"]
        ELSE /\ sent' = sent
             /\ undelivered' = undelivered \cup {Triple(r, run[r])}
             /\ run' = [run EXCEPT ![r] = Fatal(@, "Telegram send failed")]
    /\ UNCHANGED <<env, calc, pages, clock, ticks, store, alert_log, attempts>>

insertLog(r) ==
    /\ run[r].kind = "multi" /\ run[r].pc = "insertLog"
    /\ \E error \in QueryErrors :
        LET rr == run[r]
            res == InsertAlertLog(alert_log, LogRow(Head(rr.treatments).id, rr.alertType, rr.todayKey))
        IN  IF error # ""
            THEN /\ run' = [run EXCEPT ![r] = Fatal(@, error)]
                 /\ alert_log' = alert_log
            ELSE IF res.code # ""
            THEN /\ run' = [run EXCEPT ![r] = Fatal(@, res.code)]
                 /\ alert_log' = res.log
            ELSE /\ run' = [run EXCEPT ![r] = Multi_AfterBlock([@ EXCEPT !.sentCount = @ + 1])]
                 /\ alert_log' = res.log
    /\ UNCHANGED <<env, calc, pages, clock, ticks, store, history>>

(***************************************************************************)
(* scripts/send-alerts.js: the single-pet runner.                          *)
(***************************************************************************)
\* The loop as it would be if `continue` did not advance it: the same
\* treatment is taken up again while others are left.
SA_NextTreatment_Repeat(rr) ==
    LET clean == [rr EXCEPT !.days = 0, !.alertType = <<>>]
    IN  IF Len(rr.treatments) > 1
        THEN [clean EXCEPT !.pc = "applications"]
        ELSE Done(clean)

\* `continue`, or the end of the loop body: the next treatment, else "Done".
SA_NextTreatment(rr) ==
    LET clean == [rr EXCEPT !.days = 0, !.alertType = <<>>]
    IN  IF Len(rr.treatments) > 1
        THEN [clean EXCEPT !.treatments = Tail(rr.treatments), !.pc = "applications"]
        ELSE Done(clean)

SA_ResolveAlerts(alerts_days) ==
    IF alerts_days.isArray THEN alerts_days.items ELSE DefaultAlerts

SA_todayISO(nowSP) == toISODate(nowSP)

SA_Start(r) == Begin(r, "single", "pets", SA_todayISO(toZonedTime(clock, TZ)), SA_EnvOk)

\* 1) select id,name from pets where name = 'Zeus' limit 1
SA_getPet(r) ==
    /\ run[r].kind = "single" /\ run[r].pc = "pets"
    /\ \E petErr \in QueryErrors :
        LET rows == {p \in Pets : p.name = "Zeus"}
        IN  IF petErr # "" THEN run' = [run EXCEPT ![r] = Fatal(@, petErr)]
            ELSE IF rows = {} THEN run' = [run EXCEPT ![r] = Fatal(@, "Pet Zeus not found")]
            ELSE \E zeus \in rows :
                    run' = [run EXCEPT ![r].pets = <<zeus>>, ![r].pc = "treatments"]
    /\ UNCHANGED <<env, calc, pages, clock, ticks, store, alert_log, history>>

\* 2) select ... from treatments where pet_id = zeus.id, in no stated order
SA_getTreatments(r) ==
    /\ run[r].kind = "single" /\ run[r].pc = "treatments"
    /\ \E trErr \in QueryErrors :
        LET rows == {t \in treatments : t.pet_id = Head(run[r].pets).id}
        IN  IF trErr # "" THEN run' = [run EXCEPT ![r] = Fatal(@, trErr)]
            ELSE IF rows = {} THEN run' = [run EXCEPT ![r] = Done(@)]
            ELSE \E data \in Perms(rows) :
                    run' = [run EXCEPT ![r].treatments = data, ![r].pc = "applications"]
    /\ UNCHANGED <<env, calc, pages, clock, ticks, store, alert_log, history>>

\* 3) the last application of the treatment, and the decision on it
SA_getApplications(r) ==
    /\ run[r].kind = "single" /\ run[r].pc = "applications"
    /\ \E appErr \in QueryErrors :
        LET rr == run[r]
            t == Head(rr.treatments)
            apps == LastApplication(t.id)
        IN  IF appErr # "" THEN run' = [run EXCEPT ![r] = Fatal(@, appErr)]
            ELSE IF apps = <<>> THEN run' = [run EXCEPT ![r] = SA_NextTreatment(@)]
            ELSE LET last == ParseLocalMidnight(apps[1].applied_on)
                     next == calcNextDate(last, t.interval_value, t.interval_unit)
                     days == differenceInCalendarDays(next, rr.nowSP)
                     alerts == SA_ResolveAlerts(t.alerts_days)
                     withDays == [rr EXCEPT !.days = days]
                 IN  run' = [run EXCEPT ![r] =
                        IF days < 0
                        THEN [withDays EXCEPT !.alertType = OverdueType, !.pc = "alreadyLogged"]
                        ELSE IF includes(alerts, days)
                        THEN [withDays EXCEPT !.alertType = DueInType(days), !.pc = "alreadyLogged"]
                        ELSE SA_NextTreatment(withDays)]
    /\ UNCHANGED <<env, calc, pages, clock, ticks, store, alert_log, history>>

\* The insert that is the claim: false when the row went in, true on 23505.
SA_alreadyLogged(r) ==
    /\ run[r].kind = "single" /\ run[r].pc = "alreadyLogged"
    /\ \E fault \in QueryErrors :
        LET rr == run[r]
            res == InsertAlertLog(alert_log, LogRow(Head(rr.treatments).id, rr.alertType, rr.todayKey))
            error == IF fault # "" THEN fault ELSE res.code
        IN  /\ alert_log' = IF fault # "" THEN alert_log ELSE res.log
            /\ IF error = ""
               THEN /\ run' = [run EXCEPT ![r].pc = "telegramSend"]
                    /\ attempts' = attempts \cup {Attempt(r, rr, "acquired")}
               ELSE IF error = "23505"
               THEN /\ run' = [run EXCEPT ![r] = SA_NextTreatment(@)]
                    /\ attempts' = attempts \cup {Attempt(r, rr, "already")}
               ELSE /\ run' = [run EXCEPT ![r] = Fatal(@, error)]
                    /\ attempts' = attempts \cup {Attempt(r, rr, "error")}
    /\ UNCHANGED <<env, calc, pages, clock, ticks, store, sent, undelivered>>

SA_telegramSend(r) ==
    /\ run[r].kind = "single" /\ run[r].pc = "telegramSend"
    /\ \E ok \in BOOLEAN :
        IF ok
        THEN /\ sent' = sent (+) SetToBag({Delivery(r, run[r])})
             /\ undelivered' = undelivered
             /\ run' = [run EXCEPT ![r] = SA_NextTreatment(@)]
        ELSE /\ sent' = sent
             /\ undelivered' = undelivered \cup {Triple(r, run[r])}
             /\ run' = [run EXCEPT ![r] = Fatal(@, "Telegram error")]
    /\ UNCHANGED <<env, calc, pages, clock, ticks, store, alert_log, attempts>>

(***************************************************************************)
(* The environment: time passes between and during invocations.            *)
(***************************************************************************)
\* The clock starts at 2024-06-01 01:00 in Sao Paulo and advances in steps
\* of twelve hours: 13:00, then 01:00 of the next day, and so on.
StartClock == YMD(2024, 6, 1) * 24 + 1 - TZ

Tick ==
    /\ ticks < MaxTicks
    /\ clock' = clock + 12
    /\ ticks' = ticks + 1
    /\ UNCHANGED <<env, calc, pages, store, alert_log, run, history>>

(***************************************************************************)
(* The schedule calculator (lib/schedule and the runners' copies of it)    *)
(* called on its own: calc holds the arguments of one call and, once the   *)
(* call has returned, its result.                                          *)
(***************************************************************************)
\* The dates of the calls: every day from 2024-01-26 on, over the end of
\* January and the leap day, at midnight and at 23:00.
FirstDate == YMD(2024, 1, 26)
ScheduleDates == {FromLocal(day, hour) : day \in FirstDate..(FirstDate + MaxSpan), hour \in {0, 23}}
ScheduleValues == {0, 1, 12, 30}
ScheduleDays == (0 - MaxDays)..(60 + MaxDays)

Call(op, date, value, unit, days) ==
    [op |-> op, date |-> date, value |-> value, unit |-> unit, days |-> days,
     returned |-> FALSE, result |-> 0, reverse |-> 0]

NoCall == Call("none", 0, 0, "days", 0)

\* For daysToNext, date is nextDate and value is today.
Calls ==
    {Call(op, d, 0, "days", 0) : op \in {"adjustWeekend", "adjustIfWeekend"}, d \in ScheduleDates} \cup
    {Call(op, d, v, u, 0) : op \in {"calcNextDate", "Multi_calcNextDate"}, d \in ScheduleDates,
                            v \in ScheduleValues, u \in {"days", "months"}} \cup
    {Call("statusFromDays", 0, 0, "days", n) : n \in ScheduleDays} \cup
    {Call("daysToNext", d, e, "days", 0) : d \in ScheduleDates, e \in ScheduleDates}

Return(result, reverse) ==
    /\ ~calc.returned
    /\ calc' = [calc EXCEPT !.returned = TRUE, !.result = result, !.reverse = reverse]
    /\ UNCHANGED <<env, pages, clock, ticks, store, alert_log, run, history>>

Eval_adjustWeekend ==
    /\ calc.op = "adjustWeekend"
    /\ Return(adjustWeekend(calc.date), 0)

Eval_adjustIfWeekend ==
    /\ calc.op = "adjustIfWeekend"
    /\ Return(adjustIfWeekend(calc.date), 0)

Eval_calcNextDate ==
    /\ calc.op = "calcNextDate"
    /\ Return(calcNextDate(calc.date, calc.value, calc.unit), 0)

Eval_Multi_calcNextDate ==
    /\ calc.op = "Multi_calcNextDate"
    /\ Return(Multi_calcNextDate(calc.date, calc.value, calc.unit), 0)

Eval_statusFromDays ==
    /\ calc.op = "statusFromDays"
    /\ Return(statusFromDays(calc.days), 0)

\* The call, and the call with its arguments exchanged.
Eval_daysToNext ==
    /\ calc.op = "daysToNext"
    /\ Return(daysToNext(calc.date, calc.value), daysToNext(calc.value, calc.date))

(***************************************************************************)
(* The pages.  A page is mounted for the user of the session; its state is *)
(* the useState cells of the component.  A number cell may hold NaN.       *)
(***************************************************************************)
NoSession == "none"

Num(n) == [nan |-> FALSE, n |-> n]
NaN == [nan |-> TRUE, n |-> 0]

\* The text of the alerts field, character by character.
DefaultAlertsText == <<"3", "0", ",", "1", "5", ",", "5">>

\* ConfigPage as mounted.
ConfigPage(user) ==
    [user |-> user, loading |-> TRUE, role |-> "null", petId |-> 0, treatments |-> <<>>,
     error |-> "", category |-> "vaccine", name |-> "", intervalValue |-> Num(12),
     intervalUnit |-> "months", alertsText |-> DefaultAlertsText, handler |-> "useEffect"]

\* AgendaPage as mounted; today is the instant of the mount.
AgendaPage(user, today) ==
    [user |-> user, loading |-> TRUE, role |-> "null", items |-> <<>>, error |-> "",
     today |-> today, isModalOpen |-> FALSE, modalTreatmentId |-> 0, modalDate |-> <<>>,
     saving |-> FALSE]

\* The role test of the handlers as it would be if any member passed.
IsOwner_AnyMember(role) == role # "null"

\* role !== "owner" is false
IsOwner(role) == role = "owner"

\* select role from pet_members where pet_id and user_id match, limit 1
MemberRoles(petId, user) ==
    {m.role : m \in {x \in pet_members : x.pet_id = petId /\ x.user_id = user}}

(***************************************************************************)
(* ConfigPage.  handler is the handler that ran last.                      *)
(***************************************************************************)
\* String.prototype.split(","), on a text given character by character.
RECURSIVE SplitComma(_, _)
SplitComma(rest, current) ==
    IF rest = <<>> THEN <<current>>
    ELSE IF Head(rest) = "," THEN <<current>> \o SplitComma(Tail(rest), <<>>)
    ELSE SplitComma(Tail(rest), Append(current, Head(rest)))

\* String.prototype.trim
trim(x) ==
    LET RECURSIVE TrimStart(_)
        TrimStart(y) == IF y # <<>> /\ Head(y) = " " THEN TrimStart(Tail(y)) ELSE y
        RECURSIVE TrimEnd(_)
        TrimEnd(y) ==
            IF y # <<>> /\ y[Len(y)] = " " THEN TrimEnd(SubSeq(y, 1, Len(y) - 1)) ELSE y
    IN  TrimEnd(TrimStart(x))

\* Number(x) for a text of digits, "-", blanks and letters: the empty text is
\* 0, a decimal numeral with an optional sign its value, anything else NaN.
Number(x) ==
    LET t == trim(x)
        DigitValue(c) ==
            CASE c = "0" -> 0 [] c = "1" -> 1 [] c = "2" -> 2 [] c = "3" -> 3 [] c = "4" -> 4
              [] c = "5" -> 5 [] c = "6" -> 6 [] c = "7" -> 7 [] c = "8" -> 8 [] c = "9" -> 9
        IsDigits(y) ==
            y # <<>> /\ \A i \in 1..Len(y) :
                        y[i] \in {"0", "1", "2", "3", "4", "5", "6", "7", "8", "9"}
        RECURSIVE DigitsValue(_)
        DigitsValue(y) ==
            IF y = <<>> THEN 0
            ELSE DigitsValue(SubSeq(y, 1, Len(y) - 1)) * 10 + DigitValue(y[Len(y)])
    IN  IF t = <<>> THEN Num(0)
        ELSE IF IsDigits(t) THEN Num(DigitsValue(t))
        ELSE IF Head(t) = "-" /\ IsDigits(Tail(t)) THEN Num(0 - DigitsValue(Tail(t)))
        ELSE NaN

\* .map((x) => x.trim()).filter(Boolean).map((x) => Number(x))
RECURSIVE TokensToNumbers(_)
TokensToNumbers(tokens) ==
    IF tokens = <<>> THEN <<>>
    ELSE LET x == trim(Head(tokens))
         IN  IF x = <<>> THEN TokensToNumbers(Tail(tokens))
             ELSE <<Number(x)>> \o TokensToNumbers(Tail(tokens))

\* The filter as it would be without n >= 0.
KeepFinite_AnySign(numbers) ==
    IF numbers = <<>> THEN <<>>
    ELSE [i \in 1..Len(SelectSeq(numbers, LAMBDA v : ~v.nan)) |->
            SelectSeq(numbers, LAMBDA v : ~v.nan)[i].n]

\* .filter((n) => Number.isFinite(n) && n >= 0)
KeepFinite(numbers) ==
    IF numbers = <<>> THEN <<>>
    ELSE [i \in 1..Len(SelectSeq(numbers, LAMBDA v : ~v.nan /\ v.n >= 0)) |->
            SelectSeq(numbers, LAMBDA v : ~v.nan /\ v.n >= 0)[i].n]

\* Array.from(new Set(arr)): the first occurrence of each value, in order.
RECURSIVE Distinct(_)
Distinct(arr) ==
    IF arr = <<>> THEN <<>>
    ELSE LET before == Distinct(SubSeq(arr, 1, Len(arr) - 1))
         IN  IF includes(before, arr[Len(arr)]) THEN before ELSE Append(before, arr[Len(arr)])

\* .sort((a, b) => b - a)
RECURSIVE SortDesc(_)
SortDesc(arr) ==
    LET RECURSIVE InsertDesc(_, _)
        InsertDesc(x, sorted) ==
            IF sorted = <<>> THEN <<x>>
            ELSE IF Head(sorted) >= x THEN <<Head(sorted)>> \o InsertDesc(x, Tail(sorted))
            ELSE <<x>> \o sorted
    IN  IF arr = <<>> THEN <<>>
        ELSE InsertDesc(arr[Len(arr)], SortDesc(SubSeq(arr, 1, Len(arr) - 1)))

alertsParsed(alertsText) ==
    SortDesc(Distinct(KeepFinite(TokensToNumbers(SplitComma(alertsText, <<>>)))))

\* name.trim(), for the names that are typed.
trimName(name) ==
    CASE name = " Drontal " -> "Drontal"
      [] name = " " -> ""
      [] OTHER -> name


\* The effect of the mount: session, pet, role of the user, treatments.
Config_load ==
    /\ config.user # NoSession
    /\ config.loading
    /\ \E petsErr \in QueryErrors, memberErr \in QueryErrors, trErr \in QueryErrors :
        LET pets == {p \in Pets : p.name = "Zeus"}
            pet == CHOOSE p \in pets : TRUE
            member == MemberRoles(pet.id, config.user)
            stop(page, message) == [page EXCEPT !.error = message, !.loading = FALSE]
        IN  IF petsErr # "" THEN config' = stop(config, "Erro ao buscar pet")
            ELSE IF pets = {} THEN config' = stop(config, "Pet Zeus nao encontrado")
            ELSE IF memberErr # ""
            THEN config' = stop([config EXCEPT !.petId = pet.id], "Erro ao buscar role")
            ELSE IF member = {}
            THEN config' = stop([config EXCEPT !.petId = pet.id], "Voce nao esta cadastrado")
            ELSE \E myRole \in member :
                 IF trErr # ""
                 THEN config' = stop([config EXCEPT !.petId = pet.id, !.role = myRole],
                                     "Erro ao listar tratamentos")
                 ELSE \E trs \in OrderedByCategoryName({t \in treatments : t.pet_id = pet.id}) :
                        config' = [config EXCEPT !.petId = pet.id, !.role = myRole,
                                                 !.treatments = trs, !.loading = FALSE]
    /\ UNCHANGED <<env, calc, agenda, clock, ticks, store, alert_log, run, history>>

\* What is typed into the form; the category is left as it is.
FormNames == {"", " Drontal "}
FormIntervals == {Num(12), Num(0), NaN}
FormAlertsTexts ==
    {DefaultAlertsText,
     <<"5", ",", "5">>,
     <<"5", ",", " ", "3", "0", " ", ",", "-", "1">>,
     <<"x", ",", " ", ",">>}

Typed(field, value) ==
    /\ ~config.loading
    /\ config' = [config EXCEPT ![field] = value, !.handler = "onChange"]
    /\ UNCHANGED <<env, calc, agenda, clock, ticks, store, alert_log, run, history>>

setName == \E value \in FormNames : Typed("name", value)

\* setIntervalValue(Number(e.target.value))
setIntervalValue == \E value \in FormIntervals : Typed("intervalValue", value)

setIntervalUnit == \E value \in {"days", "months"} : Typed("intervalUnit", value)

setAlertsText == \E value \in FormAlertsTexts : Typed("alertsText", value)

\* The id the store gives a new treatments row.
NewTreatmentId ==
    LET used == {t.id : t \in treatments} \cup {config.treatments[i].id : i \in 1..Len(config.treatments)}
    IN  (CHOOSE m \in used \cup {0} : \A n \in used : n <= m) + 1

\* createTreatment: the tests, the insert and the reload of the list.  The
\* handler can be called whatever is rendered.
createTreatment ==
    /\ ~config.loading
    /\ NewTreatmentId <= MaxTreatments
    /\ \E insErr \in QueryErrors, trErr \in QueryErrors :
        LET page == [config EXCEPT !.error = "", !.handler = "createTreatment"]
            fail(message) == /\ config' = [page EXCEPT !.error = message]
                             /\ treatments' = treatments
            payload == [id |-> NewTreatmentId, pet_id |-> config.petId, category |-> config.category,
                        name |-> trimName(config.name),
                        interval_value |-> config.intervalValue.n,
                        interval_unit |-> config.intervalUnit,
                        alerts_days |-> Alerts(alertsParsed(config.alertsText))]
        IN  IF ~IsOwner(config.role) THEN fail("Somente o owner pode cadastrar")
            ELSE IF config.petId = 0 THEN fail("Pet nao carregado")
            ELSE IF trimName(config.name) = "" THEN fail("Informe o nome do tratamento")
            ELSE IF config.intervalValue.nan \/ config.intervalValue.n = 0
                    \/ config.intervalValue.n <= 0
            THEN fail("Periodicidade invalida")
            ELSE IF Len(alertsParsed(config.alertsText)) = 0 THEN fail("Alertas invalidos")
            ELSE IF insErr # "" THEN fail("Erro ao criar tratamento")
            ELSE /\ treatments' = treatments \cup {payload}
                 /\ IF trErr # ""
                    THEN config' = [page EXCEPT !.error = "Criou, mas falhou ao recarregar lista"]
                    ELSE \E trs \in OrderedByCategoryName({t \in treatments' : t.pet_id = config.petId}) :
                            config' = [page EXCEPT !.treatments = trs, !.name = ""]
    /\ UNCHANGED <<env, calc, agenda, clock, ticks, pet_members, applications, alert_log, run,
                   history>>

\* Array.prototype.filter((t) => t.id !== id)

\* deleteTreatment(id), on a row of the list.  The store either removes the
\* applications and alert_log entries of the treatment with it or leaves them.
deleteTreatment ==
    /\ ~config.loading
    /\ \E i \in 1..Len(config.treatments), confirmed \in BOOLEAN, delErr \in QueryErrors,
          cascade \in BOOLEAN :
        LET id == config.treatments[i].id
            page == [config EXCEPT !.error = "", !.handler = "deleteTreatment"]
            kept(rows) == IF cascade THEN {x \in rows : x.treatment_id # id} ELSE rows
        IN  IF ~IsOwner(config.role)
            THEN /\ config' = [page EXCEPT !.error = "Somente o owner pode deletar"]
                 /\ UNCHANGED <<treatments, applications, alert_log>>
            ELSE IF ~confirmed
            THEN /\ config' = page
                 /\ UNCHANGED <<treatments, applications, alert_log>>
            ELSE IF delErr # ""
            THEN /\ config' = [page EXCEPT !.error = "Erro ao deletar"]
                 /\ UNCHANGED <<treatments, applications, alert_log>>
            ELSE /\ treatments' = {t \in treatments : t.id # id}
                 /\ applications' = kept(applications)
                 /\ alert_log' = [row \in kept(DOMAIN alert_log) |-> alert_log[row]]
                 /\ config' = [page EXCEPT !.treatments = SelectSeq(config.treatments, LAMBDA t : t.id # id)]
    /\ UNCHANGED <<env, calc, agenda, clock, ticks, pet_members, run, history>>

(***************************************************************************)
(* AgendaPage.                                                             *)
(***************************************************************************)
\* isoDateLocal: the calendar day the local fields of a Date show.
isoDateLocal(d) == YMD(getFullYear(LocalDay(d)), getMonth(LocalDay(d)), getDate(LocalDay(d)))

\* The agenda item of a treatment row, from the answer of its applications
\* query; a null field is the empty sequence.
AgendaItem(t, apps, today) ==
    IF apps = <<>>
    THEN [treatmentId |-> t.id, lastAppliedOn |-> <<>>, nextDate |-> <<>>, daysToNext |-> <<>>]
    ELSE LET last == ParseLocalMidnight(apps[1].applied_on)
             nextDate == calcNextDate(last, t.interval_value, t.interval_unit)
         IN  [treatmentId |-> t.id, lastAppliedOn |-> <<apps[1].applied_on>>,
              nextDate |-> <<nextDate>>, daysToNext |-> <<daysToNext(nextDate, today)>>]

\* Array.prototype.sort by a.daysToNext ?? 999999: stable, equal keys keep
\* their order.
RECURSIVE SortAgenda(_)
SortAgenda(items) ==
    LET SortKey(item) == IF item.daysToNext = <<>> THEN 999999 ELSE item.daysToNext[1]
        RECURSIVE InsertByKey(_, _)
        InsertByKey(x, sorted) ==
            IF sorted = <<>> THEN <<x>>
            ELSE IF SortKey(Head(sorted)) <= SortKey(x)
                 THEN <<Head(sorted)>> \o InsertByKey(x, Tail(sorted))
            ELSE <<x>> \o sorted
    IN  IF items = <<>> THEN <<>>
        ELSE InsertByKey(items[Len(items)], SortAgenda(SubSeq(items, 1, Len(items) - 1)))

\* The effect of the mount: session, pet, role, treatments, and for each
\* treatment its last application.
Agenda_load ==
    /\ agenda.user # NoSession
    /\ agenda.loading
    /\ \E petsErr \in QueryErrors, memberErr \in QueryErrors, trErr \in QueryErrors,
          appErr \in QueryErrors :
        LET pets == {p \in Pets : p.name = "Zeus"}
            zeus == CHOOSE p \in pets : TRUE
            member == MemberRoles(zeus.id, agenda.user)
            rows == {t \in treatments : t.pet_id = zeus.id}
            stop(page, message) == [page EXCEPT !.error = message, !.loading = FALSE]
        IN  IF petsErr # "" THEN agenda' = stop(agenda, "Erro ao buscar pet")
            ELSE IF pets = {} THEN agenda' = stop(agenda, "Pet Zeus nao encontrado")
            ELSE IF memberErr # "" THEN agenda' = stop(agenda, "Erro ao buscar role")
            ELSE IF member = {} THEN agenda' = stop(agenda, "Voce nao esta cadastrado")
            ELSE \E myRole \in member :
                 IF trErr # "" THEN agenda' = stop([agenda EXCEPT !.role = myRole], "Erro ao buscar tratamentos")
                 ELSE IF appErr # "" /\ rows # {}
                 THEN agenda' = stop([agenda EXCEPT !.role = myRole], "Erro ao buscar aplicacoes")
                 ELSE \E trRows \in OrderedByCategoryName(rows) :
                      LET built == [i \in 1..Len(trRows) |->
                                      AgendaItem(trRows[i], LastApplication(trRows[i].id), agenda.today)]
                      IN  agenda' = [agenda EXCEPT !.role = myRole, !.items = SortAgenda(built),
                                                   !.loading = FALSE]
    /\ UNCHANGED <<env, calc, config, clock, ticks, store, alert_log, run, history>>

\* The days the date field of the modal is set to: 2024-04-01 and 2024-05-07.
ModalDays == {YMD(2024, 4, 1), YMD(2024, 5, 7)}

\* openMarkModal(treatmentId, treatmentName, suggestedDate?), on an item of
\* the agenda; without a suggested date the modal opens on today.
openMarkModal ==
    /\ ~agenda.loading
    /\ \E i \in 1..Len(agenda.items), suggestedDate \in {<<>>} \cup {<<ParseLocalMidnight(d)>> : d \in ModalDays} :
        LET d == IF suggestedDate = <<>> THEN clock ELSE suggestedDate[1]
        IN  IF ~IsOwner(agenda.role) THEN agenda' = agenda
            ELSE agenda' = [agenda EXCEPT !.modalTreatmentId = agenda.items[i].treatmentId,
                                          !.modalDate = <<isoDateLocal(d)>>,
                                          !.isModalOpen = TRUE]
    /\ UNCHANGED <<env, calc, config, clock, ticks, store, alert_log, run, history>>

\* onChange of the date field of the modal; the field may be cleared.
setModalDate ==
    /\ ~agenda.loading /\ agenda.isModalOpen
    /\ \E value \in {<<>>} \cup {<<d>> : d \in ModalDays} :
        agenda' = [agenda EXCEPT !.modalDate = value]
    /\ UNCHANGED <<env, calc, config, clock, ticks, store, alert_log, run, history>>

closeModal(page) ==
    IF page.saving THEN page
    ELSE [page EXCEPT !.isModalOpen = FALSE, !.modalTreatmentId = 0, !.modalDate = <<>>]

Agenda_closeModal ==
    /\ ~agenda.loading /\ agenda.isModalOpen
    /\ agenda' = closeModal(agenda)
    /\ UNCHANGED <<env, calc, config, clock, ticks, store, alert_log, run, history>>

\* saveApplication: the insert, then closeModal and the reload of the page,
\* which mounts it anew.  The handler can be called whatever is rendered.
saveApplication ==
    /\ ~agenda.loading
    /\ Cardinality(applications) < MaxApplications
    /\ \E insErr \in QueryErrors :
        IF ~IsOwner(agenda.role) THEN UNCHANGED <<agenda, applications>>
        ELSE IF agenda.modalTreatmentId = 0 THEN UNCHANGED <<agenda, applications>>
        ELSE IF agenda.modalDate = <<>> THEN UNCHANGED <<agenda, applications>>
        ELSE IF insErr # "" THEN UNCHANGED <<agenda, applications>>
        ELSE /\ applications' = applications \cup
                    {[treatment_id |-> agenda.modalTreatmentId, applied_on |-> agenda.modalDate[1]]}
             /\ agenda' = AgendaPage(agenda.user, clock)
    /\ UNCHANGED <<env, calc, config, clock, ticks, pet_members, treatments, alert_log, run, history>>

(***************************************************************************)
(* The initial store.  Zeus has two treatments, a vaccine (id 1) and a     *)
(* medicine (id 2); Luna has one overdue treatment (id 3).                 *)
(***************************************************************************)
Config(alerts, value, unit, applied) ==
    [alerts_days |-> alerts, interval_value |-> value, interval_unit |-> unit, applied |-> applied]

\* Last given 2024-04-27, every 30 days: due 2024-05-27, 5 days before the
\* first day of the model.
Overdue == Config(NullAlerts, 30, "days", {YMD(2024, 4, 27)})
\* Last given 2024-01-01, every 6 months: due 2024-07-01, 30 days after the
\* first day of the model.
DueIn30 == Config(Alerts(DefaultAlerts), 6, "months", {YMD(2024, 1, 1)})
\* Never given.
NoHistory == Config(Alerts(DefaultAlerts), 30, "days", {})

OneOwner ==
    {[pet_id |-> 1, user_id |-> "ana", role |-> "owner"],
     [pet_id |-> 1, user_id |-> "bia", role |-> "owner"],
     [pet_id |-> 2, user_id |-> "bia", role |-> "viewer"]}

TwoOwned ==
    {[pet_id |-> 1, user_id |-> "ana", role |-> "owner"],
     [pet_id |-> 2, user_id |-> "ana", role |-> "owner"]}

Scenario(members, vaccine, medicine) ==
    [members |-> members, vaccine |-> vaccine, medicine |-> medicine]

\* The stores the concurrent invocations are explored on.
Scenarios ==
    {Scenario(OneOwner, Overdue, DueIn30),
     Scenario(OneOwner, NoHistory, Overdue)}

AlertChoices == {NullAlerts, Alerts(<<>>), Alerts(<<30, 15, 5>>), Alerts(<<16, 5>>)}

\* 2024-04-27, 2024-05-07, 2024-05-17 and 2024-06-01: with an interval of
\* 30 days the next date is 5 days before, 5 days, 16 days and 30 days after
\* the first day of the model.
AppliedChoices == {{}, {YMD(2024, 4, 27)}, {YMD(2024, 5, 7)}, {YMD(2024, 5, 17)},
                   {YMD(2024, 6, 1)}, {YMD(2024, 4, 27), YMD(2024, 5, 7)}}

\* The stores the invocations that follow one another are explored on: the
\* vaccine varies, the medicine is the same treatment with the thresholds
\* [30,15,5] written out.
WideScenarios ==
    Scenarios \cup
    {Scenario(OneOwner, Config(a, 30, "days", ap), Config(Alerts(DefaultAlerts), 30, "days", ap)) :
        a \in AlertChoices, ap \in AppliedChoices} \cup
    {Scenario(OneOwner, Config(a, 1, "months", {}), DueIn30) : a \in AlertChoices} \cup
    {Scenario(TwoOwned, Overdue, DueIn30), Scenario(TwoOwned, NoHistory, NoHistory)}

Treatment(id, pet, category, name, c) ==
    [id |-> id, pet_id |-> pet, category |-> category, name |-> name,
     interval_value |-> c.interval_value, interval_unit |-> c.interval_unit,
     alerts_days |-> c.alerts_days]

Applied(id, c) == {[treatment_id |-> id, applied_on |-> d] : d \in c.applied}

\* All four values set, or one of them unset or empty.
Configured == [n \in EnvNames |-> "value"]

EnvChoices ==
    {Configured} \cup {[Configured EXCEPT ![n] = v] : n \in EnvNames, v \in {"undefined", ""}}

InitRunner(scenarios, envs) ==
    /\ clock = StartClock
    /\ ticks = 0
    /\ env \in envs
    /\ \E sc \in scenarios :
        /\ pet_members = sc.members
        /\ treatments = {Treatment(1, 1, "vaccine", "V10", sc.vaccine),
                         Treatment(2, 1, "medicine", "Apoquel", sc.medicine),
                         Treatment(3, 2, "flea_tick", "Bravecto", Overdue)}
        /\ applications = Applied(1, sc.vaccine) \cup Applied(2, sc.medicine) \cup Applied(3, Overdue)
    /\ alert_log = EmptyBag
    /\ run = [r \in Runs |-> IdleRun]
    /\ sent = EmptyBag
    /\ undelivered = {}
    /\ attempts = {}

\* The runners on their own: nobody is signed in to the pages and the
\* calculator is not called apart from them.
InitOn(scenarios) ==
    /\ InitRunner(scenarios, EnvChoices)
    /\ calc = NoCall
    /\ config = ConfigPage(NoSession)
    /\ agenda = AgendaPage(NoSession, StartClock)

Init == InitOn(Scenarios)

\* The calculator on its own: one call, its arguments drawn from Calls.
InitSchedule ==
    /\ InitRunner({Scenario(OneOwner, Overdue, DueIn30)}, {Configured})
    /\ calc \in Calls
    /\ config = ConfigPage(NoSession)
    /\ agenda = AgendaPage(NoSession, StartClock)

NextSchedule ==
    \/ Tick
    \/ Eval_adjustWeekend
    \/ Eval_adjustIfWeekend
    \/ Eval_calcNextDate
    \/ Eval_Multi_calcNextDate
    \/ Eval_statusFromDays
    \/ Eval_daysToNext
SpecSchedule == InitSchedule /\ [][NextSchedule]_vars

MultiBody(r) ==
    \/ getOwnerPets(r)
    \/ getTreatmentsByPet(r)
    \/ getLastApplicationDate(r)
    \/ alreadyLogged(r)
    \/ Multi_telegramSend(r)
    \/ insertLog(r)

SingleBody(r) ==
    \/ SA_getPet(r)
    \/ SA_getTreatments(r)
    \/ SA_getApplications(r)
    \/ SA_alreadyLogged(r)
    \/ SA_telegramSend(r)

MultiStep(r) == Multi_Start(r) \/ MultiBody(r)

SingleStep(r) == SA_Start(r) \/ SingleBody(r)

\* Invocations of the deployed script, overlapping in any way.
Next == Tick \/ \E r \in Runs : MultiStep(r) \/ SingleStep(r)
Spec == Init /\ [][Next]_vars

\* The deployed script is the multi-pet runner.
NextMulti == Tick \/ \E r \in Runs : MultiStep(r)
SpecMulti == Init /\ [][NextMulti]_vars

\* The deployed script is scripts/send-alerts.js.
NextSingle == Tick \/ \E r \in Runs : SingleStep(r)
SpecSingle == Init /\ [][NextSingle]_vars

\* Invocations that follow one another, as the daily timer starts them: an
\* invocation starts only when every earlier one has exited.
Quiet(r) == \A q \in Runs \ {r} : run[q].pc \in {"idle", "done", "failed"}

SeqStart(r) == Quiet(r) /\ (Multi_Start(r) \/ SA_Start(r))

NextSeq == Tick \/ \E r \in Runs : SeqStart(r) \/ MultiBody(r) \/ SingleBody(r)
SpecSeq == InitOn(WideScenarios) /\ [][NextSeq]_vars

\* The owner records applications on the agenda page before and after the
\* invocation of the day.
InitCare ==
    /\ InitRunner({Scenario(OneOwner, Overdue, DueIn30)}, {Configured})
    /\ calc = NoCall
    /\ config = ConfigPage(NoSession)
    /\ agenda = AgendaPage("ana", StartClock)

\* No invocation is under way.
AllQuiet == \A q \in Runs : run[q].pc \in {"idle", "done", "failed"}

Care_load == AllQuiet /\ Agenda_load

Care_openMarkModal == AllQuiet /\ openMarkModal

Care_setModalDate == AllQuiet /\ setModalDate

Care_closeModal == AllQuiet /\ Agenda_closeModal

Care_saveApplication == AllQuiet /\ saveApplication

\* The invocation of the day.
CareStart(r) == r = 1 /\ (Multi_Start(r) \/ SA_Start(r))

NextCare ==
    \/ Tick
    \/ \E r \in Runs : CareStart(r) \/ MultiBody(r) \/ SingleBody(r)
    \/ Care_load
    \/ Care_openMarkModal
    \/ Care_setModalDate
    \/ Care_closeModal
    \/ Care_saveApplication
SpecCare == InitCare /\ [][NextCare]_vars

\* One invocation from its start to its exit.  Every await settles: the
\* store and the messaging channel answer or fail, and the event loop
\* resumes main().
InitTerm == InitOn({Scenario(TwoOwned, Overdue, DueIn30), Scenario(OneOwner, NoHistory, Overdue)})

NextTerm == Tick \/ \E r \in Runs : CareStart(r) \/ MultiBody(r) \/ SingleBody(r)
SpecTerm ==
    InitTerm /\ [][NextTerm]_vars /\ \A r \in Runs : WF_vars(MultiBody(r) \/ SingleBody(r))

\* The pages on their own.  Ana owns Zeus, Bia may only view him, Caio is no
\* member; the user of the session opens one of the two pages.
Family ==
    {[pet_id |-> 1, user_id |-> "ana", role |-> "owner"],
     [pet_id |-> 1, user_id |-> "bia", role |-> "viewer"],
     [pet_id |-> 2, user_id |-> "ana", role |-> "owner"]}

InitUI ==
    /\ InitRunner({Scenario(Family, Overdue, DueIn30)}, {Configured})
    /\ calc = NoCall
    /\ \E user \in {"ana", "bia", "caio"} :
        \/ config = ConfigPage(user) /\ agenda = AgendaPage(NoSession, StartClock)
        \/ config = ConfigPage(NoSession) /\ agenda = AgendaPage(user, StartClock)

NextUI ==
    \/ Config_load
    \/ setName
    \/ setIntervalValue
    \/ setIntervalUnit
    \/ setAlertsText
    \/ createTreatment
    \/ deleteTreatment
    \/ Agenda_load
    \/ openMarkModal
    \/ setModalDate
    \/ Agenda_closeModal
    \/ saveApplication
SpecUI == InitUI /\ [][NextUI]_vars

(***************************************************************************)
(* Properties of the alert runners.                                        *)
(***************************************************************************)
\* The notifications delivered for a treatment and alert type by the
\* invocations of one Sao Paulo calendar day.
Deliveries(treatmentId, alertType, date) ==
    {d \in BagToSet(sent) :
        d.treatment_id = treatmentId /\ d.alert_type = alertType /\ d.date = date}

\* C1: however the invocations of one calendar day interleave, at most one
\* notification is delivered per (treatment, alert type, calendar date).
C1_AtMostOncePerTriple ==
    \A d \in BagToSet(sent) :
        /\ Deliveries(d.treatment_id, d.alert_type, d.date) = {d}
        /\ CopiesIn(d, sent) = 1

\* An invocation holds the outcome "claim acquired, proceed to notify" from
\* its claim attempt until it leaves the alert block.
Holding(r) == run[r].pc \in {"telegramSend", "insertLog"}

\* C2: of the callers that attempt to claim one triple together, exactly one
\* obtains "claim acquired": no two invocations hold it for the same triple.
C2_OneCallerAcquires ==
    \A r1, r2 \in Runs :
        (r1 # r2 /\ Holding(r1) /\ Holding(r2)) =>
            LogRow(Head(run[r1].treatments).id, run[r1].alertType, run[r1].todayKey)
                # LogRow(Head(run[r2].treatments).id, run[r2].alertType, run[r2].todayKey)

\* C3: an invocation that starts after an earlier one of the same calendar
\* day has exited with 0, the store being unchanged, acquires no claim, sends
\* nothing and adds no alert_log entry.
C3_SecondRunSendsNothing ==
    \A r \in Runs :
        run[r].okBefore =>
            /\ \A d \in BagToSet(sent) : d.run # r
            /\ \A a \in attempts : a.run = r => a.outcome # "acquired"
            /\ run[r].sentCount = 0

\* C4: alert_log holds at most one entry per triple, and no step updates or
\* removes an entry.
LogUnique(log) == \A row \in BagToSet(log) : CopiesIn(row, log) = 1

C4_LogUniqueAndGrowing ==
    /\ LogUnique(alert_log)
    /\ [][/\ LogUnique(alert_log')
          /\ \A row \in BagToSet(alert_log) : CopiesIn(row, alert_log') >= CopiesIn(row, alert_log)]_vars

\* Two invocations went for the same triple: one inserted the entry, the
\* other met it.
C4_Witness ==
    /\ alert_log # EmptyBag
    /\ \/ \E a \in attempts : a.outcome = "already"
       \/ \E r \in Runs : run[r].error = "23505"

\* C5: when the messaging channel refuses a notification, the invocation
\* ends in error and, unless the notification was delivered by another
\* invocation, alert_log holds no entry for its triple.
C5_FailedDeliveryLeavesNoEntry ==
    \A u \in undelivered :
        /\ run[u.run].pc = "failed"
        /\ \/ \E d \in BagToSet(sent) : /\ d.treatment_id = u.treatment_id
                                         /\ d.alert_type = u.alert_type
                                         /\ d.alert_date = u.alert_date
           \/ ~BagIn(LogRow(u.treatment_id, u.alert_type, u.alert_date), alert_log)

\* C6: no invocation ends with the uniqueness conflict 23505 as its error.
C6_ConflictNotPropagated ==
    \A r \in Runs : run[r].error # "23505"

\* C7: for a treatment without applications no claim is attempted, no
\* alert_log entry is written and no notification is sent or tried.
C7_NoHistoryNoAlert ==
    \A t \in treatments :
        {a \in applications : a.treatment_id = t.id} = {} =>
            /\ \A a \in attempts : a.treatment_id # t.id
            /\ \A d \in BagToSet(sent) : d.treatment_id # t.id
            /\ \A u \in undelivered : u.treatment_id # t.id
            /\ \A row \in BagToSet(alert_log) : row.treatment_id # t.id
            /\ \A r \in Runs : run[r].pc \in {"alreadyLogged", "telegramSend", "insertLog"}
                                  => Head(run[r].treatments).id # t.id

\* An invocation has gone through all of Zeus's treatments, one of them
\* without applications.
C7_Witness ==
    /\ \E r \in Runs : run[r].pc = "done"
    /\ \E t \in treatments : /\ t.pet_id = 1
                             /\ {a \in applications : a.treatment_id = t.id} = {}
                             /\ t.alerts_days # Alerts(DefaultAlerts)

\* The claim attempts of invocation r for a treatment: alert type and date.
AttemptsFor(r, treatmentId) ==
    {<<a.alert_type, a.alert_date>> : a \in {b \in attempts : b.run = r /\ b.treatment_id = treatmentId}}

\* Two treatments that differ in their thresholds only.
Twins(t, u) ==
    /\ t.interval_value = u.interval_value
    /\ t.interval_unit = u.interval_unit
    /\ {a.applied_on : a \in {b \in applications : b.treatment_id = t.id}}
        = {a.applied_on : a \in {b \in applications : b.treatment_id = u.id}}

\* C8: an invocation that exits with 0 makes, for a treatment whose
\* alerts_days is NULL or empty, the claim attempts it makes for the same
\* treatment with alerts_days = [30,15,5].
C8_DefaultThresholds ==
    \A r \in Runs : \A t, u \in treatments :
        (/\ run[r].pc = "done"
         /\ t.pet_id = 1 /\ u.pet_id = 1
         /\ Twins(t, u)
         /\ t.alerts_days \in {NullAlerts, Alerts(<<>>)}
         /\ u.alerts_days = Alerts(<<30, 15, 5>>))
        => AttemptsFor(r, t.id) = AttemptsFor(r, u.id)

\* The thresholds of a treatment, the default when unset or empty.
Thresholds(treatmentId) ==
    LET t == CHOOSE x \in treatments : x.id = treatmentId
    IN  IF t.alerts_days.isArray /\ t.alerts_days.items # <<>> THEN t.alerts_days.items
        ELSE <<30, 15, 5>>

\* C9: a claim attempted for days >= 0 is for a day count among the
\* thresholds, and is the triple (treatment, "upcoming_<days>", today).
C9_UpcomingClaim ==
    \A a \in attempts :
        a.days >= 0 =>
            /\ includes(Thresholds(a.treatment_id), a.days)
            /\ a.alert_type = <<"upcoming_", a.days>>
            /\ a.alert_date = a.today

\* days for a treatment row on a calendar day, from its latest application.
DaysOn(t, day) ==
    LET applied == {a.applied_on : a \in {b \in applications : b.treatment_id = t.id}}
        last == CHOOSE d \in applied : \A e \in applied : e <= d
    IN  daysToNext(calcNextDate(ParseLocalMidnight(last), t.interval_value, t.interval_unit),
                   ParseLocalMidnight(day))

\* C10: on a calendar day all of whose invocations have exited with 0, each
\* overdue treatment of Zeus has exactly one overdue_daily notification and
\* exactly one alert_log entry (treatment, "overdue_daily", that day).
C10_OneOverdueAlertPerDay ==
    \A r \in Runs :
        LET day == RunDay(run[r])
        IN  (/\ run[r].pc = "done"
             /\ \A q \in Runs : (run[q].pc # "idle" /\ RunDay(run[q]) = day) => run[q].pc = "done")
            => \A t \in treatments :
                (/\ t.pet_id = 1
                 /\ \E a \in applications : a.treatment_id = t.id
                 /\ DaysOn(t, day) < 0)
                => /\ Cardinality(Deliveries(t.id, <<"overdue_daily">>, day)) = 1
                   /\ \A d \in Deliveries(t.id, <<"overdue_daily">>, day) : CopiesIn(d, sent) = 1
                   /\ CopiesIn(LogRow(t.id, <<"overdue_daily">>, day), alert_log) = 1

(***************************************************************************)
(* Properties of the schedule calculator.                                  *)
(***************************************************************************)
\* The day of the week of a calendar day, 0 = Monday .. 6 = Sunday: day 0,
\* 2024-01-01, is a Monday.
Weekday(day) == day % 7

\* What the weekend rule adds to a calendar day.
WeekendShift(day) == IF Weekday(day) = 5 THEN 2 ELSE IF Weekday(day) = 6 THEN 1 ELSE 0

\* C11: for every date d, adjustWeekend(d) (and the multi-pet script's
\* adjustIfWeekend(d)) falls on neither a Saturday nor a Sunday and lies 0, 1
\* or 2 calendar days after d.
C11_AdjustedToWeekday ==
    (calc.returned /\ calc.op \in {"adjustWeekend", "adjustIfWeekend"}) =>
        /\ Weekday(LocalDay(calc.result)) \notin {5, 6}
        /\ LocalDay(calc.result) - LocalDay(calc.date) \in {0, 1, 2}

\* adjustWeekend has returned for a Saturday.
C11_Witness ==
    /\ calc.returned /\ calc.op = "adjustWeekend"
    /\ Weekday(LocalDay(calc.date)) = 5
    /\ calc.result = calc.date + 48

\* C12: calcNextDate(lastApplied, value, unit) is the raw date
\* addInterval(lastApplied, value, unit) when that is Monday to Friday, the
\* raw date + 2 days when it is a Saturday and the raw date + 1 day when it is
\* a Sunday, whatever else the state holds.
C12_NextDateIsAdjustedRawDate ==
    (calc.returned /\ calc.op \in {"calcNextDate", "Multi_calcNextDate"}) =>
        LET raw == addInterval(calc.date, calc.value, calc.unit)
        IN  LocalDay(calc.result) = LocalDay(raw) + WeekendShift(LocalDay(raw))

\* calcNextDate has returned for an interval in months whose raw date is a
\* Saturday.
C12_Witness ==
    /\ calc.returned /\ calc.op = "calcNextDate" /\ calc.unit = "months" /\ calc.value > 0
    /\ Weekday(LocalDay(addInterval(calc.date, calc.value, calc.unit))) = 5
    /\ LocalDay(calc.result) = LocalDay(addInterval(calc.date, calc.value, calc.unit)) + 2

\* C13: statusFromDays(days) is "overdue" exactly when days < 0, "upcoming"
\* exactly when 0 <= days <= 60 and "later" exactly when days > 60.
C13_StatusFromDays ==
    (calc.returned /\ calc.op = "statusFromDays") =>
        /\ calc.result \in {"overdue", "upcoming", "later"}
        /\ calc.result = "overdue" <=> calc.days < 0
        /\ calc.result = "upcoming" <=> (0 <= calc.days /\ calc.days <= 60)
        /\ calc.result = "later" <=> calc.days > 60

\* statusFromDays(60) has returned "upcoming".
C13_Witness ==
    calc.returned /\ calc.op = "statusFromDays" /\ calc.days = 60 /\ calc.result = "upcoming"

\* C14: daysToNext(nextDate, today) is the signed number of calendar days
\* from today to nextDate: 0 on the same date, positive when nextDate is
\* later, negative when it is earlier, and the call with the arguments
\* exchanged gives the negated number.
C14_SignedCalendarDays ==
    (calc.returned /\ calc.op = "daysToNext") =>
        LET nextDay == LocalDay(calc.date)
            todayDay == LocalDay(calc.value)
        IN  /\ calc.result = 0 <=> nextDay = todayDay
            /\ calc.result > 0 <=> nextDay > todayDay
            /\ calc.result < 0 <=> nextDay < todayDay
            /\ todayDay + calc.result = nextDay
            /\ calc.reverse = 0 - calc.result

\* daysToNext has returned 1 for 23:00 today and midnight tomorrow, one hour
\* apart.
C14_Witness ==
    /\ calc.returned /\ calc.op = "daysToNext"
    /\ calc.date - calc.value = 1
    /\ calc.result = 1

(***************************************************************************)
(* Properties of the baseline of a treatment.                              *)
(***************************************************************************)
\* The applied_on dates of a treatment, and the latest of them.
AppliedOn(treatmentId) == {a.applied_on : a \in {b \in applications : b.treatment_id = treatmentId}}

Latest(treatmentId) == CHOOSE d \in AppliedOn(treatmentId) : \A e \in AppliedOn(treatmentId) : e <= d

\* The next due date of treatment row t when its latest application is of
\* calendar day last.
DueFrom(last, t) == calcNextDate(ParseLocalMidnight(last), t.interval_value, t.interval_unit)

\* C15: the next due date of a treatment comes from the latest applied_on
\* among its applications, whatever earlier applications there are: days and
\* the alert decision of an invocation are those of that date, and so are the
\* items of the agenda.
C15_LatestApplicationOnly ==
    /\ [](\A i \in 1..Len(agenda.items) : \A t \in treatments :
            (~agenda.loading /\ t.id = agenda.items[i].treatmentId) =>
                IF AppliedOn(t.id) = {}
                THEN agenda.items[i].nextDate = <<>> /\ agenda.items[i].lastAppliedOn = <<>>
                ELSE /\ agenda.items[i].lastAppliedOn = <<Latest(t.id)>>
                     /\ agenda.items[i].nextDate = <<DueFrom(Latest(t.id), t)>>
                     /\ agenda.items[i].daysToNext =
                            <<LocalDay(DueFrom(Latest(t.id), t)) - LocalDay(agenda.today)>>)
    /\ [][\A r \in Runs :
            (/\ run[r].pc \in {"getLastApplicationDate", "applications"}
             /\ run'[r].pc # run[r].pc
             /\ run'[r].pc # "failed"
             /\ AppliedOn(Head(run[r].treatments).id) # {}) =>
                LET t == Head(run[r].treatments)
                    days == LocalDay(DueFrom(Latest(t.id), t)) - RunDay(run[r])
                IN  /\ run'[r].pc = "alreadyLogged" => run'[r].days = days
                    /\ days < 0 => (run'[r].pc = "alreadyLogged" /\ run'[r].alertType = OverdueType)
                    /\ (days >= 0 /\ ~includes(Thresholds(t.id), days)) => run'[r].pc # "alreadyLogged"]_vars

\* The owner has appended 2024-05-07 to the vaccine last given 2024-04-27,
\* and an invocation has then found it 5 days ahead instead of overdue.
C15_Witness ==
    /\ AppliedOn(1) = {YMD(2024, 4, 27), YMD(2024, 5, 7)}
    /\ \E a \in attempts : a.treatment_id = 1 /\ a.days = 5

(***************************************************************************)
(* Properties of the start and the end of an invocation.                   *)
(***************************************************************************)
\* C16: when one of the four required values is unset or empty, every
\* invocation fails while the script loads: it issues no store query, writes
\* no alert_log entry and sends no notification.
C16_MissingConfigFailsAtStartup ==
    (\E n \in EnvNames : env[n] \in {"undefined", ""}) =>
        /\ \A r \in Runs : /\ run[r].pc \in {"idle", "failed"}
                           /\ run[r].pc = "failed" =>
                                (run[r].exitCode = 1 /\ run[r].error = "Missing env")
        /\ attempts = {}
        /\ alert_log = EmptyBag
        /\ sent = EmptyBag
        /\ undelivered = {}

\* The multi-pet runner was started with an empty TELEGRAM_CHAT_ID and has
\* failed.
C16_Witness ==
    /\ env["TELEGRAM_CHAT_ID"] = ""
    /\ \E r \in Runs : run[r].kind = "multi" /\ run[r].pc = "failed"

\* An invocation has exited.
Exited(r) == run[r].pc \in {"done", "failed"}

\* C17: an invocation exits with code 0 exactly when it has gone through its
\* last pet and treatment without an error; a store query error or a
\* delivery error ends it with a non-zero code, and an invocation that has
\* exited claims, sends and logs nothing more.
C17_ExitCode ==
    /\ [](\A r \in Runs :
            /\ run[r].exitCode = 0 <=> run[r].pc = "done"
            /\ run[r].exitCode \notin {0, -1} <=> run[r].pc = "failed"
            /\ run[r].pc = "done" => run[r].error = ""
            /\ run[r].pc = "failed" => run[r].error # "")
    /\ [](\A a \in attempts : a.outcome = "error" => run[a.run].pc = "failed")
    /\ [](\A u \in undelivered : run[u.run].pc = "failed")
    /\ [][\A r \in Runs :
            /\ (run'[r].pc = "done" /\ run[r].pc # "done") =>
                    (Len(run[r].pets) <= 1 /\ Len(run[r].treatments) <= 1)
            /\ Exited(r) =>
                /\ run'[r] = run[r]
                /\ \A a \in attempts' \ attempts : a.run # r
                /\ \A u \in undelivered' \ undelivered : u.run # r
                /\ \A d \in BagToSet(sent') : d.run = r => CopiesIn(d, sent') = CopiesIn(d, sent)
                /\ alert_log' # alert_log => \E q \in Runs \ {r} : run'[q] # run[q]]_vars

\* One invocation was ended by a delivery error while treatments were left;
\* another went through all of them.
C17_Witness ==
    /\ \E r \in Runs : /\ run[r].pc = "failed"
                       /\ run[r].error \in {"Telegram send failed", "Telegram error"}
                       /\ \E t \in treatments : t.pet_id = 1 /\ AttemptsFor(r, t.id) = {}
    /\ \E q \in Runs : run[q].pc = "done" /\ \E a \in attempts : a.run = q

\* C20: in one invocation, an upcoming alert and an overdue alert are never
\* both claimed, or both sent, for the same treatment.
C20_OneAlertKindPerTreatment ==
    /\ \A a, b \in attempts :
        (a.run = b.run /\ a.treatment_id = b.treatment_id /\ a.alert_type = <<"overdue_daily">>)
            => b.alert_type = <<"overdue_daily">>
    /\ \A c, d \in BagToSet(sent) :
        (c.run = d.run /\ c.treatment_id = d.treatment_id /\ c.alert_type = <<"overdue_daily">>)
            => d.alert_type = <<"overdue_daily">>

\* An invocation has claimed an overdue alert for one treatment and an
\* upcoming alert for another.
C20_Witness ==
    \E a, b \in attempts :
        /\ a.run = b.run /\ a.treatment_id # b.treatment_id
        /\ a.alert_type = <<"overdue_daily">> /\ a.days < 0
        /\ b.alert_type # <<"overdue_daily">> /\ b.days >= 0

(***************************************************************************)
(* Properties of the pages.                                                *)
(***************************************************************************)
\* C18: createTreatment, deleteTreatment and saveApplication change the
\* store only when the role the page has loaded is "owner", which it is only
\* for an owner of the pet; with the role "viewer" or no role they leave the
\* store, the list of treatments and the agenda as they are.
C18_OnlyOwnerChangesStore ==
    /\ [](/\ config.role # "null" => config.role \in MemberRoles(config.petId, config.user)
          /\ agenda.role # "null" => agenda.role \in MemberRoles(1, agenda.user))
    /\ [][/\ treatments' # treatments => config.role = "owner"
          /\ applications' # applications => (config.role = "owner" \/ agenda.role = "owner")
          /\ (~config.loading /\ config.role # "owner") =>
                (config'.treatments = config.treatments /\ store' = store)
          /\ (~agenda.loading /\ agenda.role # "owner" /\ config.role # "owner") =>
                (agenda'.items = agenda.items /\ agenda'.isModalOpen = agenda.isModalOpen
                 /\ store' = store)]_vars

\* Bia, a viewer, has filled in the form and called createTreatment.
C18_Witness ==
    /\ config.user = "bia" /\ config.role = "viewer"
    /\ config.handler = "createTreatment"
    /\ trimName(config.name) # ""
    /\ config.error = "Somente o owner pode cadastrar"
    /\ Cardinality(treatments) = 3

\* The rows createTreatment has inserted: the store gave them the ids after
\* those of the three treatments it held at first.
Created == {t \in treatments : t.id > 3}

RowValid(t) ==
    /\ t.interval_value > 0
    /\ t.alerts_days.isArray
    /\ Len(t.alerts_days.items) > 0
    /\ \A i \in 1..Len(t.alerts_days.items) : t.alerts_days.items[i] >= 0
    /\ \A i, j \in 1..Len(t.alerts_days.items) :
            t.alerts_days.items[i] = t.alerts_days.items[j] => i = j

\* The entries of the alerts field as typed: the texts between the commas
\* that are not blank, as numbers.
Entries(alertsText) == TokensToNumbers(SplitComma(alertsText, <<>>))

\* A form whose values, as typed, are an interval above 0 and a list of
\* alerts that is non-empty, holds non-negative numbers only and holds no
\* number twice.
FormValidAsTyped(page) ==
    /\ ~page.intervalValue.nan /\ page.intervalValue.n > 0
    /\ Len(Entries(page.alertsText)) > 0
    /\ \A i \in 1..Len(Entries(page.alertsText)) :
            ~Entries(page.alertsText)[i].nan /\ Entries(page.alertsText)[i].n >= 0
    /\ \A i, j \in 1..Len(Entries(page.alertsText)) :
            Entries(page.alertsText)[i] = Entries(page.alertsText)[j] => i = j

\* C19 as stated: every row createTreatment inserts has interval_value > 0
\* and a non-empty alerts_days of distinct non-negative numbers, and a form
\* that violates one of these inserts nothing and sets an error message.
C19_InvalidFormIsRejected ==
    /\ [](\A t \in Created : RowValid(t))
    /\ [](config.handler = "createTreatment" /\ ~FormValidAsTyped(config) => config.error # "")
    /\ [][treatments' \ treatments # {} => FormValidAsTyped(config)]_vars

\* A form whose interval is above 0 and whose alerts field yields at least
\* one non-negative number.
FormAccepted(page) ==
    /\ ~page.intervalValue.nan /\ page.intervalValue.n > 0
    /\ \E i \in 1..Len(Entries(page.alertsText)) :
            ~Entries(page.alertsText)[i].nan /\ Entries(page.alertsText)[i].n >= 0

\* C19 as amended: every row createTreatment inserts has interval_value > 0
\* and a non-empty alerts_days of distinct non-negative numbers, which are
\* the non-negative numbers of the alerts field; a form whose interval is not
\* above 0 or whose alerts field yields no non-negative number inserts
\* nothing and sets an error message.
C19_InsertedRowsAreValid ==
    /\ [](\A t \in Created : RowValid(t))
    /\ [](config.handler = "createTreatment" /\ ~FormAccepted(config) => config.error # "")
    /\ [][\A t \in treatments' \ treatments :
            /\ FormAccepted(config)
            /\ \A i \in 1..Len(Entries(config.alertsText)) :
                (~Entries(config.alertsText)[i].nan /\ Entries(config.alertsText)[i].n >= 0)
                    <=> includes(t.alerts_days.items, Entries(config.alertsText)[i].n)]_vars

\* The owner has created a treatment from the alerts text "5, 30 ,-1": its
\* row holds [30, 5].
C19_Witness ==
    \E t \in Created : t.alerts_days = Alerts(<<30, 5>>) /\ t.name = "Drontal"

(***************************************************************************)
(* Properties of one invocation.                                           *)
(***************************************************************************)
\* The treatments an invocation of a script evaluates: those of the pets
\* with an owner for the multi-pet runner, those of Zeus for the other.
Evaluated(kind) ==
    IF kind = "multi"
    THEN {t \in treatments : \E m \in pet_members : m.role = "owner" /\ m.pet_id = t.pet_id}
    ELSE {t \in treatments : t.pet_id = 1}

\* The alert types the evaluation of treatment row t on calendar day today
\* comes to, taken on its own.
AlertTypes(kind, t, today) ==
    IF AppliedOn(t.id) = {} THEN {}
    ELSE LET days == LocalDay(DueFrom(Latest(t.id), t)) - today
         IN  IF kind = "multi"
             THEN (IF includes(Multi_ResolveAlerts(t.alerts_days), days)
                   THEN {<<"upcoming_", days>>} ELSE {})
                  \cup (IF days < 0 THEN {<<"overdue_daily">>} ELSE {})
             ELSE IF days < 0 THEN {<<"overdue_daily">>}
             ELSE IF includes(SA_ResolveAlerts(t.alerts_days), days)
                  THEN {<<"due_in_", days>>} ELSE {}

\* The triples of the notifications delivered by invocation r.
SentBy(r) ==
    {LogRow(d.treatment_id, d.alert_type, d.alert_date) : d \in {e \in BagToSet(sent) : e.run = r}}

Work(rr) ==
    LET overdue == rr.alertType = <<"overdue_daily">> /\ rr.kind = "multi"
        stage == CASE rr.pc \in {"getLastApplicationDate", "applications"} -> 7
                   [] rr.pc = "alreadyLogged" -> IF overdue THEN 3 ELSE 6
                   [] rr.pc = "telegramSend" -> IF overdue THEN 2 ELSE 5
                   [] rr.pc = "insertLog" -> IF overdue THEN 1 ELSE 4
                   [] OTHER -> 0
    IN  CASE rr.pc \in {"done", "failed"} -> 0
          [] rr.pc \in {"getOwnerPets", "pets"} -> 100000
          [] rr.pc = "treatments" -> 50000
          [] rr.pc = "getTreatmentsByPet" -> Len(rr.pets) * 100 + 99
          [] OTHER -> Len(rr.pets) * 100 + Len(rr.treatments) * 8 + stage

\* C22: an invocation takes each treatment once: the treatments still to be
\* taken are distinct and none of them is of a pet still to come, every step
\* moves on within the evaluation of the treatment or to a later treatment,
\* never back; leaving the last treatment without an error is the exit with
\* "Done"; and every invocation that has started exits.
C22_EachTreatmentOnceAndTerminates ==
    /\ [](\A r \in Runs :
            /\ \A i, j \in 1..Len(run[r].treatments) :
                    run[r].treatments[i].id = run[r].treatments[j].id => i = j
            /\ \A i, j \in 1..Len(run[r].pets) :
                    run[r].pets[i].id = run[r].pets[j].id => i = j
            /\ \A i \in 1..Len(run[r].treatments) :
                    run[r].treatments[i].pet_id = Head(run[r].pets).id)
    /\ [][\A r \in Runs :
            (run'[r] # run[r] /\ run[r].pc # "idle") =>
                /\ Work(run'[r]) < Work(run[r])
                /\ run[r].treatments # <<>> =>
                        run'[r].treatments \in {run[r].treatments, Tail(run[r].treatments), <<>>}
                /\ (/\ Len(run[r].treatments) = 1 /\ Len(run[r].pets) = 1
                    /\ run'[r].treatments # run[r].treatments
                    /\ run'[r].pc # "failed") => run'[r].pc = "done"]_vars
    /\ \A r \in Runs : (run[r].pc # "idle") ~> (run[r].pc \in {"done", "failed"})

\* The multi-pet runner has gone through the three treatments of two pets,
\* each of them alerted once, and has exited with "Done".
C22_Witness ==
    /\ run[1].kind = "multi" /\ run[1].pc = "done" /\ run[1].sentCount = 3
    /\ \A t \in treatments : Cardinality({a \in attempts : a.run = 1 /\ a.treatment_id = t.id}) = 1

(***************************************************************************)
(* Properties of the multi-pet runner.                                     *)
(***************************************************************************)
\* The number of notifications delivered by invocation r.
DeliveredBy(r) ==
    BagCardinality([d \in {e \in BagToSet(sent) : e.run = r} |-> CopiesIn(d, sent)])

\* C23: the multi-pet runner writes the alert_log entry of a triple only
\* when it has, in the same invocation, delivered the notification of that
\* triple; so every entry has a delivered notification, sentCount goes up by
\* one with each entry the invocation inserts and with nothing else, and the
\* count in the "Done" line is the number of notifications it delivered.
C23_LogAfterDelivery ==
    /\ [](\A row \in BagToSet(alert_log) : \E d \in BagToSet(sent) :
            LogRow(d.treatment_id, d.alert_type, d.alert_date) = row)
    /\ [](\A r \in Runs : run[r].pc = "done" => run[r].sentCount = DeliveredBy(r))
    /\ [][\A r \in Runs :
            (run'[r] # run[r] /\ run[r].pc # "idle") =>
                /\ \A row \in BagToSet(alert_log' (-) alert_log) :
                        \E d \in BagToSet(sent) :
                            d.run = r /\ LogRow(d.treatment_id, d.alert_type, d.alert_date) = row
                /\ run'[r].sentCount - run[r].sentCount
                        = BagCardinality(alert_log') - BagCardinality(alert_log)]_vars

\* The multi-pet runner has alerted for the overdue vaccine and for the
\* medicine due in 30 days, and has exited with "Done. Sent=2".
C23_Witness ==
    /\ run[1].kind = "multi" /\ run[1].pc = "done" /\ run[1].sentCount = 2
    /\ BagCardinality(alert_log) = 2
    /\ DeliveredBy(1) = 2

\* The pets that have a membership with the role "owner".
OwnedPetIds == {m.pet_id : m \in {x \in pet_members : x.role = "owner"}}

\* C24: the multi-pet runner takes the pets with an owner, each once however
\* many owners it has, and never a pet that has viewers only: getOwnerPets
\* hands main() each of them once, main() takes them off the list one by
\* one, the treatments under evaluation are theirs, and an invocation that
\* has exited with "Done" has made one claim attempt for each alert of each
\* of their treatments and none for the treatments of other pets.
C24_OwnerPetsOnce ==
    /\ [](\A r \in Runs : run[r].kind = "multi" =>
            /\ \A i \in 1..Len(run[r].pets) : run[r].pets[i].id \in OwnedPetIds
            /\ \A i \in 1..Len(run[r].treatments) : run[r].treatments[i].pet_id \in OwnedPetIds
            /\ \A a \in attempts : a.run = r =>
                    \E t \in treatments : t.id = a.treatment_id /\ t.pet_id \in OwnedPetIds
            /\ run[r].pc = "done" =>
                    \A t \in treatments :
                        IF t.pet_id \in OwnedPetIds
                        THEN \A type \in AlertTypes("multi", t, RunDay(run[r])) :
                                Cardinality({a \in attempts : /\ a.run = r
                                                              /\ a.treatment_id = t.id
                                                              /\ a.alert_type = type}) = 1
                        ELSE \A a \in attempts : a.run = r => a.treatment_id # t.id)
    /\ [][\A r \in Runs : run[r].kind = "multi" =>
            /\ (run[r].pc = "getOwnerPets" /\ run'[r].pc = "getTreatmentsByPet") =>
                    /\ {run'[r].pets[i].id : i \in 1..Len(run'[r].pets)} = OwnedPetIds
                    /\ Len(run'[r].pets) = Cardinality(OwnedPetIds)
            /\ (run[r].pc # "getOwnerPets" /\ run[r].pets # <<>>) =>
                    run'[r].pets \in {run[r].pets, Tail(run[r].pets), <<>>}]_vars

\* Zeus has two owners and Luna a viewer only: the multi-pet runner has
\* exited with "Done" after one claim attempt for Zeus's overdue vaccine and
\* none for Luna's overdue treatment.
C24_Witness ==
    /\ pet_members = OneOwner
    /\ run[1].kind = "multi" /\ run[1].pc = "done"
    /\ Cardinality({a \in attempts : a.run = 1 /\ a.treatment_id = 1}) = 1
    /\ AlertTypes("multi", CHOOSE t \in treatments : t.id = 3, RunDay(run[1])) # {}
    /\ \A a \in attempts : a.treatment_id # 3

====
